---- MODULE Spec2Model ----
(***************************************************************************)
(* Aiclex hall-ticket mailer (src/streamlit_app.py).                       *)
(*                                                                         *)
(* The specifications of this module:                                      *)
(*   SpecPack     create_chunked_zips, one loop iteration per step         *)
(*   SpecExtract  the "extract pdfs from zip" block of the page            *)
(*   Spec         "Email Send" as a state machine over st.session_state:   *)
(*                one action per operator interaction (= one script rerun) *)
(*   SpecGroup    grouping and Prepare on rows with blanks and recipients  *)
(*   SpecNames    grouping and Prepare on unusual file and place names     *)
(*   SpecResult   the row-level mapping of "Result Formation"              *)
(*                                                                         *)
(* Strings are sequences of one-character strings, so that strip, upper,   *)
(* lower, replace, slicing and "in" are computed and not assumed.          *)
(* Sizes are counted in units of 11 bytes: the end-of-central-directory    *)
(* record that zipfile writes for an archive, even one with no entry, is   *)
(* 22 bytes = 2 units, and the smallest entry with a five-character name   *)
(* ("a.pdf": 30+5 local header, 46+5 central header, 2 bytes of deflate)   *)
(* is 88 bytes = 8 units.                                                  *)
(***************************************************************************)
EXTENDS Integers, Sequences, FiniteSets, TLC

VARIABLES
    \* create_chunked_zips (SpecPack)
    file_paths,          \* argument: the ordered list of files to pack
    max_bytes,           \* argument / page setting: the per-attachment ceiling
    current_files,       \* local: the accumulator
    part_index,          \* local: ordinal of the next part
    parts,               \* local / result: list of (zip_path, files)
    pos,                 \* how many elements of file_paths the for loop has consumed
    pc,                  \* "loop" | "done" ("idle" outside SpecPack)
    \* extraction block (SpecExtract)
    uploaded_zip,        \* the uploaded top-level archive
    pdf_files,           \* dict base name -> path, in insertion order
    zip_error,           \* TRUE when st.error("ZIP extraction failed") was shown
    extract_pc,          \* "start" | "done" ("idle" outside SpecExtract)
    \* the page (Spec)
    rows,                \* the data frame read from the uploaded Excel
    grouped,             \* the script's grouped dict, rebuilt by every rerun
    location_recipients, \* st.session_state['location_recipients']
    prepared_info,       \* st.session_state['prepared_info'], or NotPrepared
    workdir_exists,      \* whether st.session_state['workdir_es'] is still on disk
    sel_loc,             \* state of the "Select location to preview/send" box
    clicked,             \* the interaction that caused the last rerun
    logs,                \* the log table shown by the last send handler
    trace,               \* send_message and sleep calls made by the last handler
    ui,                  \* st.error / st.warning texts of the last rerun
    \* Result Formation (SpecResult)
    rdf,                 \* the data frame read from the uploaded Excel
    pdf_files_rf,        \* dict base name -> path, in insertion order
    mapping_rows,        \* the row-level mapping built by the run
    result_pc            \* "start" | "done" ("idle" outside SpecResult)

vars == <<file_paths, max_bytes, current_files, part_index, parts, pos, pc,
          uploaded_zip, pdf_files, zip_error, extract_pc,
          rows, grouped, location_recipients, prepared_info, workdir_exists,
          sel_loc, clicked, logs, trace, ui,
          rdf, pdf_files_rf, mapping_rows, result_pc>>

packVars    == <<file_paths, max_bytes, current_files, part_index, parts, pos, pc>>
extractVars == <<uploaded_zip, zip_error, extract_pc>>
pageVars    == <<rows, grouped, location_recipients, prepared_info, workdir_exists,
                 sel_loc, clicked, logs, trace, ui>>
resultVars  == <<rdf, pdf_files_rf, mapping_rows, result_pc>>

----------------------------------------------------------------------------
(* Bounds of the model *)

MaxDoc == 3
MaxFiles == 4
MaxCeiling == 30
MaxNesting == 2
MaxRows == 2
MaxFailures == 1

----------------------------------------------------------------------------
(* Strings *)

Range(s) == {s[i] : i \in 1..Len(s)}

Take(s, n) == SubSeq(s, 1, IF Len(s) < n THEN Len(s) ELSE n)

RECURSIVE SumSeq(_)
SumSeq(s) == IF s = <<>> THEN 0 ELSE Head(s) + SumSeq(Tail(s))

RECURSIVE Flatten(_)
Flatten(ss) == IF ss = <<>> THEN <<>> ELSE Head(ss) \o Flatten(Tail(ss))

\* str.strip()
RECURSIVE StripLeft(_)
StripLeft(s) == IF s # <<>> /\ Head(s) = " " THEN StripLeft(Tail(s)) ELSE s

RECURSIVE StripRight(_)
StripRight(s) ==
    IF s # <<>> /\ s[Len(s)] = " " THEN StripRight(SubSeq(s, 1, Len(s) - 1)) ELSE s

Strip(s) == StripRight(StripLeft(s))

UpperChar(c) ==
    CASE c = "a" -> "A" [] c = "d" -> "D" [] c = "p" -> "P" [] c = "r" -> "R"
      [] c = "s" -> "S" [] OTHER -> c

LowerChar(c) ==
    CASE c = "A" -> "a" [] c = "D" -> "d" [] c = "P" -> "p" [] c = "R" -> "r"
      [] c = "S" -> "s" [] OTHER -> c

\* str.upper(), str.lower()
Upper(s) == [i \in 1..Len(s) |-> UpperChar(s[i])]
Lower(s) == [i \in 1..Len(s) |-> LowerChar(s[i])]

\* Python's "sub in s" on strings
Contains(sub, s) ==
    \E i \in 0..(Len(s) - Len(sub)) : SubSeq(s, i + 1, i + Len(sub)) = sub

\* str.replace(" ", "_")
ReplaceSpaces(s) == [i \in 1..Len(s) |-> IF s[i] = " " THEN "_" ELSE s[i]]

Pdf == <<".", "p", "d", "f">>
Zip == <<".", "z", "i", "p">>

----------------------------------------------------------------------------
(* Files and archives *)

\* A file on disk: the directory it is in, its base name, and the size of its
\* archived entry (headers and deflated payload).
File(dir, name, size) == [dir |-> dir, name |-> name, size |-> size]

EmptyZipSize == 2
MinEntrySize == 8

\* os.path.getsize of a zip holding `files`, an entry for each element in turn.
ZipSize(files) == EmptyZipSize + SumSeq([i \in 1..Len(files) |-> files[i].size])

\* f"{base_name}_part{part_index}.zip" under out_dir
PartPath(out_dir, base_name, idx) == [dir |-> out_dir, base |-> base_name, part |-> idx]

----------------------------------------------------------------------------
(* create_chunked_zips *)

PackStart == [parts |-> <<>>, current_files |-> <<>>, part_index |-> 1]

\* The loop body with the popped element dropped instead of carried over.
LoopBodyDropLast(st, fp, out_dir, base_name, maxb) ==
    LET cur == Append(st.current_files, fp)
    IN  IF ZipSize(cur) <= maxb
        THEN [st EXCEPT !.current_files = cur]
        ELSE [parts |-> Append(st.parts,
                               [path  |-> PartPath(out_dir, base_name, st.part_index),
                                files |-> st.current_files]),
              current_files |-> <<>>,
              part_index |-> st.part_index + 1]

\* One iteration of "for fp in file_paths".
LoopBody(st, fp, out_dir, base_name, maxb) ==
    LET cur == Append(st.current_files, fp)
    IN  IF ZipSize(cur) <= maxb
        THEN [st EXCEPT !.current_files = cur]
        ELSE \* last = current_files.pop(); the part is written with what is left
             [parts |-> Append(st.parts,
                               [path  |-> PartPath(out_dir, base_name, st.part_index),
                                files |-> st.current_files]),
              current_files |-> <<fp>>,
              part_index |-> st.part_index + 1]

\* "if current_files:" after the loop.
FinalFlush(st, out_dir, base_name) ==
    IF st.current_files # <<>>
    THEN Append(st.parts, [path  |-> PartPath(out_dir, base_name, st.part_index),
                           files |-> st.current_files])
    ELSE st.parts

RECURSIVE PackLoop(_, _, _, _, _)
PackLoop(st, fps, out_dir, base_name, maxb) ==
    IF fps = <<>> THEN st
    ELSE PackLoop(LoopBody(st, Head(fps), out_dir, base_name, maxb),
                  Tail(fps), out_dir, base_name, maxb)

create_chunked_zips(fps, out_dir, base_name, maxb) ==
    FinalFlush(PackLoop(PackStart, fps, out_dir, base_name, maxb), out_dir, base_name)

----------------------------------------------------------------------------
(* SpecPack: create_chunked_zips on every bounded input *)

DigitChars == <<"1", "2", "3", "4", "5", "6", "7", "8", "9">>
DocName(k) == <<DigitChars[k]>> \o Pdf
PackDocs == {File(<<>>, DocName(k), MinEntrySize + k - 1) : k \in 1..MaxDoc}
PackOutDir == <<<<"out">>>>
PackBase == <<"b">>

RECURSIVE SeqsUpTo(_, _)
SeqsUpTo(S, n) ==
    IF n = 0 THEN {<<>>}
    ELSE LET shorter == SeqsUpTo(S, n - 1)
         IN  shorter \cup {Append(s, x) : s \in shorter, x \in S}

IdleExtract ==
    /\ uploaded_zip = [ok |-> TRUE, pdfs |-> {}, zips |-> {}]
    /\ zip_error = FALSE
    /\ extract_pc = "idle"

IdlePage ==
    /\ rows = <<>>
    /\ grouped = <<>>
    /\ location_recipients = <<>>
    /\ prepared_info = <<>>
    /\ workdir_exists = FALSE
    /\ sel_loc = <<>>
    /\ clicked = "idle"
    /\ logs = <<>>
    /\ trace = <<>>
    /\ ui = {}

IdleResult ==
    /\ rdf = <<>>
    /\ pdf_files_rf = <<>>
    /\ mapping_rows = <<>>
    /\ result_pc = "idle"

IdlePack ==
    /\ file_paths = <<>>
    /\ current_files = <<>>
    /\ part_index = 1
    /\ parts = <<>>
    /\ pos = 0
    /\ pc = "idle"

InitPack ==
    /\ file_paths \in SeqsUpTo(PackDocs, MaxFiles)
    /\ max_bytes \in 1..MaxCeiling
    /\ current_files = <<>>
    /\ part_index = 1
    /\ parts = <<>>
    /\ pos = 0
    /\ pc = "loop"
    /\ pdf_files = <<>>
    /\ IdleExtract
    /\ IdlePage
    /\ IdleResult

PackState == [parts |-> parts, current_files |-> current_files, part_index |-> part_index]

PackStep ==
    /\ pc = "loop"
    /\ pos < Len(file_paths)
    /\ LET st == LoopBody(PackState, file_paths[pos + 1], PackOutDir, PackBase, max_bytes)
       IN  /\ parts' = st.parts
           /\ current_files' = st.current_files
           /\ part_index' = st.part_index
    /\ pos' = pos + 1
    /\ UNCHANGED <<file_paths, max_bytes, pc, pdf_files>>
    /\ UNCHANGED <<extractVars, pageVars, resultVars>>

PackFinish ==
    /\ pc = "loop"
    /\ pos = Len(file_paths)
    /\ parts' = FinalFlush(PackState, PackOutDir, PackBase)
    /\ pc' = "done"
    /\ UNCHANGED <<file_paths, max_bytes, current_files, part_index, pos, pdf_files>>
    /\ UNCHANGED <<extractVars, pageVars, resultVars>>

NextPack == PackStep \/ PackFinish

SpecPack == InitPack /\ [][NextPack]_vars

----------------------------------------------------------------------------
(* Claims about create_chunked_zips (SpecPack) *)

PartFiles == [i \in 1..Len(parts) |-> parts[i].files]

\* C1: every part produced by create_chunked_zips has an archive size <= the
\* ceiling, except a part that holds exactly one document whose own archive
\* already exceeds the ceiling.
C1_CeilingRespected ==
    pc = "done" =>
        \A i \in 1..Len(parts) :
            \/ ZipSize(parts[i].files) <= max_bytes
            \/ /\ Len(parts[i].files) = 1
               /\ ZipSize(<<parts[i].files[1]>>) > max_bytes

\* C2: the document lists of the returned parts, concatenated in part order,
\* equal the input list: nothing dropped, nothing duplicated, order kept.
C2_ConcatenationIsInput ==
    pc = "done" => Flatten(PartFiles) = file_paths

\* C2 (witness): a finished run that closed a part inside the loop and
\* another one in the final flush, over an input that repeats a document.
C2_Witness ==
    /\ pc = "done"
    /\ Len(parts) >= 2
    /\ Len(file_paths) = MaxFiles
    /\ \E i, j \in 1..Len(file_paths) : i # j /\ file_paths[i] = file_paths[j]
    /\ \E i \in 1..Len(parts) : Len(parts[i].files) >= 2

\* C3: create_chunked_zips never emits a part with an empty document list.
C3_NoEmptyPart ==
    \A i \in 1..Len(parts) : parts[i].files # <<>>

\* C4: a document starts a new part only when the current part is non-empty
\* and adding the document would push the part's size strictly above the
\* ceiling (a part whose size equals the ceiling is allowed).
C4_NewPartOnlyFromNonEmpty ==
    [][(pc = "loop" /\ pos' = pos + 1 /\ part_index' = part_index + 1)
         => /\ current_files # <<>>
            /\ ZipSize(Append(current_files, file_paths[pos + 1])) > max_bytes]_vars

----------------------------------------------------------------------------
(* Archives: what zipfile sees in the uploaded bytes *)

\* An archive is [ok, pdfs, zips]: ok is FALSE when zipfile.ZipFile cannot open
\* the bytes; pdfs are its document entries [name, readable] (readable is FALSE
\* for an entry whose payload fails its CRC); zips are its nested archives
\* [name, content].
BadArchive == [ok |-> FALSE, pdfs |-> {}, zips |-> {}]

PdfNames == {DocName(1), DocName(2)}
InnerZipName == <<"i">> \o Zip

\* The sets of entries one archive can hold: each name at most once, and only
\* the second name may be unreadable.
PdfEntrySets ==
    {P \in SUBSET ([name : PdfNames, readable : BOOLEAN]) :
        /\ \A e1, e2 \in P : e1.name = e2.name => e1 = e2
        /\ \A e \in P : ~e.readable => e.name = DocName(2)}

RECURSIVE ArchivesOfDepth(_)
ArchivesOfDepth(n) ==
    LET ZipSets == IF n = 0 THEN {{}}
                   ELSE {{}} \cup {{[name |-> InnerZipName, content |-> a]} :
                                      a \in ArchivesOfDepth(n - 1)}
    IN  {BadArchive} \cup
        {[ok |-> TRUE, pdfs |-> P, zips |-> Z] : P \in PdfEntrySets, Z \in ZipSets}

ExtractFailed == [ok |-> FALSE, files |-> {}]

\* os.path.join(root, f"_nested_{f}")
NestedDir(root, f) == Append(root, <<"_nested_">> \o f)

\* extract_zip_recursively that does not look for nested archives.
ExtractTopLevelOnly(a, extract_to) ==
    IF ~a.ok \/ \E e \in a.pdfs : ~e.readable
    THEN ExtractFailed
    ELSE [ok |-> TRUE, files |-> {File(extract_to, e.name, MinEntrySize) : e \in a.pdfs}]

\* extract_zip_recursively that swallows a bad archive instead of raising.
RECURSIVE ExtractSkippingBad(_, _)
ExtractSkippingBad(a, extract_to) ==
    IF ~a.ok \/ \E e \in a.pdfs : ~e.readable
    THEN [ok |-> TRUE, files |-> {}]
    ELSE LET here == {File(extract_to, e.name, MinEntrySize) : e \in a.pdfs}
             subs == {ExtractSkippingBad(z.content, NestedDir(extract_to, z.name)) :
                         z \in a.zips}
         IN  [ok |-> TRUE, files |-> here \cup UNION {r.files : r \in subs}]

\* extract_zip_recursively: the pdf files on disk under extract_to when it
\* returns, or ExtractFailed when zipfile raised (BadZipFile from ZipFile() on
\* bytes that are no archive or from extractall() on a bad entry); nothing
\* catches the exception of a nested call, so it ends every enclosing call.
RECURSIVE extract_zip_recursively(_, _)
extract_zip_recursively(a, extract_to) ==
    IF ~a.ok \/ \E e \in a.pdfs : ~e.readable
    THEN ExtractFailed
    ELSE LET here == {File(extract_to, e.name, MinEntrySize) : e \in a.pdfs}
             subs == {extract_zip_recursively(z.content, NestedDir(extract_to, z.name)) :
                         z \in a.zips}
         IN  IF \E r \in subs : ~r.ok
             THEN ExtractFailed
             ELSE [ok |-> TRUE, files |-> here \cup UNION {r.files : r \in subs}]

\* The recursive calls that extract_zip_recursively(a, extract_to) makes, with
\* the calls these make in turn: the directory each one extracts into. The
\* walk of a call lists a directory before the loop body creates the
\* "_nested_" directories in it, so it visits the archives that extractall
\* wrote and leaves the content of a nested archive to the nested call.
RECURSIVE NestedCalls(_, _)
NestedCalls(a, extract_to) ==
    IF ~a.ok THEN <<>>
    ELSE LET RECURSIVE CallsFor(_)
             CallsFor(Z) ==
                 IF Z = {} THEN <<>>
                 ELSE LET z == CHOOSE x \in Z : TRUE
                      IN  <<NestedDir(extract_to, z.name)>>
                          \o NestedCalls(z.content, NestedDir(extract_to, z.name))
                          \o CallsFor(Z \ {z})
         IN  CallsFor(a.zips)

\* The orders in which a directory listing can return the files of a set.
RECURSIVE Orders(_)
Orders(S) ==
    IF S = {} THEN {<<>>}
    ELSE UNION {{<<x>> \o o : o \in Orders(S \ {x})} : x \in S}

\* os.walk(temp_zip_dir), top-down: a directory's files (in listing order)
\* before those of its subdirectories.
RECURSIVE WalkOrders(_, _)
WalkOrders(a, root) ==
    LET here == {File(root, e.name, MinEntrySize) : e \in a.pdfs}
        below == IF a.zips = {} THEN {<<>>}
                 ELSE UNION {WalkOrders(z.content, NestedDir(root, z.name)) : z \in a.zips}
    IN  {o \o b : o \in Orders(here), b \in below}

\* pdf_files[f] = os.path.join(root, f): a new key goes to the end, an
\* existing key keeps its place and takes the new path.
DictPut(d, f) ==
    IF \E i \in 1..Len(d) : d[i].name = f.name
    THEN [i \in 1..Len(d) |-> IF d[i].name = f.name THEN f ELSE d[i]]
    ELSE Append(d, f)

RECURSIVE DictFromWalk(_, _)
DictFromWalk(d, walk) ==
    IF walk = <<>> THEN d ELSE DictFromWalk(DictPut(d, Head(walk)), Tail(walk))

\* tempfile.mkdtemp(prefix="aiclex_es_zip_")
TempZipDir == <<<<"aiclex_es_zip_">>>>

----------------------------------------------------------------------------
(* SpecExtract: the extraction block of the page on every bounded archive *)

InitExtract ==
    /\ uploaded_zip \in ArchivesOfDepth(MaxNesting)
    /\ pdf_files = <<>>
    /\ zip_error = FALSE
    /\ extract_pc = "start"
    /\ max_bytes = 1
    /\ IdlePack
    /\ IdlePage
    /\ IdleResult

\* "extract pdfs from zip": try: extract, walk, fill pdf_files; except: st.error
ExtractPdfs ==
    /\ extract_pc = "start"
    /\ LET r == extract_zip_recursively(uploaded_zip, TempZipDir)
       IN  IF r.ok
           THEN /\ \E w \in WalkOrders(uploaded_zip, TempZipDir) :
                       pdf_files' = DictFromWalk(<<>>, w)
                /\ zip_error' = FALSE
           ELSE /\ pdf_files' = <<>>
                /\ zip_error' = TRUE
    /\ extract_pc' = "done"
    /\ UNCHANGED <<uploaded_zip, packVars, pageVars, resultVars>>

NextExtract == ExtractPdfs

SpecExtract == InitExtract /\ [][NextExtract]_vars

----------------------------------------------------------------------------
(* Claims about extraction (SpecExtract) *)

\* The documents of an archive that can be read and lie outside every corrupt
\* subtree, with the path each is extracted to.
RECURSIVE ReadableDocs(_, _)
ReadableDocs(a, root) ==
    IF ~a.ok THEN {}
    ELSE {File(root, e.name, MinEntrySize) : e \in {x \in a.pdfs : x.readable}}
         \cup UNION {ReadableDocs(z.content, NestedDir(root, z.name)) : z \in a.zips}

\* C5: a corrupt nested archive or entry is non-fatal: every readable document
\* outside the corrupt subtree is still in the extracted collection.
C5_CorruptNestedNonFatal ==
    (extract_pc = "done" /\ uploaded_zip.ok) =>
        \A f \in ReadableDocs(uploaded_zip, TempZipDir) :
            \E i \in 1..Len(pdf_files) : pdf_files[i].name = f.name

\* C7: every document found at any nesting level is in the extracted
\* collection under its own path: two documents with the same base name at
\* different levels are both retained.
C7_EveryDocumentRetained ==
    (extract_pc = "done" /\ ~zip_error) =>
        \A f \in ReadableDocs(uploaded_zip, TempZipDir) :
            \E i \in 1..Len(pdf_files) : pdf_files[i] = f

----------------------------------------------------------------------------
(* The "Email Send" page: entries, grouping, matching, preparation *)

LocDirMax == 60
BaseNameMax == 40

\* "build entries": every field of a row, stripped
Entries(df) ==
    [i \in 1..Len(df) |->
        [hallticket         |-> Strip(df[i].hallticket),
         email              |-> Strip(df[i].email),
         location           |-> Strip(df[i].location),
         location_recipient |-> Strip(df[i].location_recipient)]]

\* grouped[key].append(e) on a dict that keeps insertion order
GroupPut(g, key, e) ==
    IF \E i \in 1..Len(g) : g[i].loc = key
    THEN [i \in 1..Len(g) |->
            IF g[i].loc = key THEN [g[i] EXCEPT !.items = Append(@, e)] ELSE g[i]]
    ELSE Append(g, [loc |-> key, items |-> <<e>>])

\* Grouping keyed by the location and the row's recipient text together.
RECURSIVE GroupedByLocationAndRecipient(_)
GroupedByLocationAndRecipient(entries) ==
    IF entries = <<>> THEN <<>>
    ELSE LET e == entries[Len(entries)]
         IN  GroupPut(GroupedByLocationAndRecipient(SubSeq(entries, 1, Len(entries) - 1)),
                      e.location \o <<"|">> \o e.location_recipient, e)

\* "for e in entries: grouped[e['location']].append(e)"
RECURSIVE Grouped(_)
Grouped(entries) ==
    IF entries = <<>> THEN <<>>
    ELSE LET e == entries[Len(entries)]
         IN  GroupPut(Grouped(SubSeq(entries, 1, Len(entries) - 1)), e.location, e)

\* mp = "" : no file
NoFile == File(<<>>, <<>>, 0)

\* The first index of a sequence that satisfies a test given as a set of indices.
FirstIn(I) == CHOOSE i \in I : \A j \in I : i <= j

\* The matching of one row: the three exact candidates in turn, then the first
\* file of the dict whose name contains a non-empty hallticket.
Resolve(ht, pdfs) ==
    LET candidates == <<ht \o Pdf, Upper(ht) \o Pdf, Lower(ht) \o Pdf>>
        Key(c) == {i \in 1..Len(pdfs) : pdfs[i].name = c}
        exact == {k \in 1..3 : Key(candidates[k]) # {}}
        sub == {i \in 1..Len(pdfs) : ht # <<>> /\ Contains(ht, pdfs[i].name)}
    IN  IF exact # {} THEN pdfs[FirstIn(Key(candidates[FirstIn(exact)]))]
        ELSE IF sub # {} THEN pdfs[FirstIn(sub)]
        ELSE NoFile

\* matched_paths of one group: "if mp: matched_paths.append(mp)" for each item
RECURSIVE MatchedPaths(_, _)
MatchedPaths(items, pdfs) ==
    IF items = <<>> THEN <<>>
    ELSE LET before == MatchedPaths(SubSeq(items, 1, Len(items) - 1), pdfs)
             mp == Resolve(items[Len(items)].hallticket, pdfs)
         IN  IF mp # NoFile THEN Append(before, mp) ELSE before

\* tempfile.mkdtemp(prefix="aiclex_es_prep_"): a path is a sequence of names
WorkDir == <<<<"aiclex_es_prep_">>>>

\* os.path.join(workdir, loc.replace(" ","_")[:60])
LocDir(loc) == Append(WorkDir, Take(ReplaceSpaces(loc), LocDirMax))

\* loc.replace(" ","_")[:40]
BaseName(loc) == Take(ReplaceSpaces(loc), BaseNameMax)

NoRecipient == <<"<no key>">>

\* The body of "for loc, items in grouped.items()" of the Prepare handler:
\* the entry prepared_info[loc]. Files are copied without compression.
PrepareLoc(g, pdfs, maxb, recipients) ==
    LET matched_paths == MatchedPaths(g.items, pdfs)
        loc_dir == LocDir(g.loc)
        copied == [i \in 1..Len(matched_paths) |->
                      File(loc_dir, matched_paths[i].name, matched_paths[i].size)]
        zips == create_chunked_zips(copied, loc_dir, BaseName(g.loc), maxb)
    IN  IF matched_paths = <<>>
        THEN [loc |-> g.loc, parts |-> <<>>, note |-> "no matched pdfs",
              recipient |-> NoRecipient]
        ELSE [loc |-> g.loc,
              parts |-> [i \in 1..Len(zips) |->
                            [path |-> zips[i].path,
                             size |-> ZipSize(zips[i].files),
                             num_files |-> Len(zips[i].files)]],
              note |-> "",
              recipient |-> recipients[g.loc]]

PreparedInfo(g, pdfs, maxb, recipients) ==
    [i \in 1..Len(g) |-> PrepareLoc(g[i], pdfs, maxb, recipients)]

\* 'prepared_info' not in st.session_state
NotPrepared == <<>>

Locs(g) == {g[i].loc : i \in 1..Len(g)}

\* default_rec of the group summary on the first run of the script
DefaultRecipients(g) ==
    [l \in Locs(g) |->
        LET items == (CHOOSE x \in Range(g) : x.loc = l).items
        IN  items[1].location_recipient]

Info(prep, loc) == CHOOSE x \in Range(prep) : x.loc = loc

\* The review section reads every part file of the selected location for its
\* download button, outside any try: with the files gone the script stops there.
ReviewCrashes(prep, sel, exists) ==
    /\ prep # NotPrepared
    /\ Info(prep, sel).parts # <<>>
    /\ ~exists

\* What every rerun shows before any button handler: the summary's "No PDFs"
\* marks, and the review section's message for the selected location.
PageMessages(g, pdfs, prep, sel, exists) ==
    {<<"No PDFs", g[i].loc>> : i \in {j \in 1..Len(g) : MatchedPaths(g[j].items, pdfs) = <<>>}}
    \cup (IF prep = NotPrepared THEN {<<"Prepare location zips first", <<>>>>}
          ELSE IF Info(prep, sel).parts = <<>>
               THEN {<<"No parts prepared for this location", sel>>}
               ELSE IF ~exists THEN {<<"FileNotFoundError", sel>>} ELSE {})

----------------------------------------------------------------------------
(* Sending *)

SendEvent(loc, idx, p, recipient, ok) ==
    [op |-> "send_message", loc |-> loc, part |-> idx, to |-> recipient,
     num_files |-> p.num_files, ok |-> ok]

SleepEvent(loc, idx) ==
    [op |-> "sleep", loc |-> loc, part |-> idx, to |-> <<>>, num_files |-> 0, ok |-> TRUE]

\* The entry has an "Error" key only when the attempt failed: str(e).
NoError == "<no key>"

\* os.path.basename(p['path'])
ZipName(p) == [base |-> p.path.base, part |-> p.path.part]

LogEntry(loc, idx, p, recipient, status, error) ==
    [Location |-> loc, Part |-> idx, Zip |-> ZipName(p), Recipient |-> recipient,
     Status |-> status, Error |-> error]

\* The loop body with an except branch that logs nothing.
SendPartNoFailedLog(acc, loc, idx, p, recipient, exists, outcome) ==
    IF exists /\ outcome = "ok"
    THEN [logs  |-> Append(acc.logs, LogEntry(loc, idx, p, recipient, "Sent", NoError)),
          trace |-> acc.trace \o <<SendEvent(loc, idx, p, recipient, TRUE),
                                   SleepEvent(loc, idx)>>]
    ELSE IF exists
    THEN [acc EXCEPT !.trace = Append(@, SendEvent(loc, idx, p, recipient, FALSE))]
    ELSE acc

\* One iteration of "for idx,p in enumerate(info['parts'], start=1)": the try
\* block reads the part file, sends, logs Sent and sleeps; any exception (the
\* file is gone, the transport fails) is logged as Failed.
SendPart(acc, loc, idx, p, recipient, exists, outcome) ==
    IF ~exists
    THEN [acc EXCEPT !.logs = Append(@, LogEntry(loc, idx, p, recipient, "Failed",
                                                 "FileNotFoundError"))]
    ELSE IF outcome = "ok"
    THEN [logs  |-> Append(acc.logs, LogEntry(loc, idx, p, recipient, "Sent", NoError)),
          trace |-> acc.trace \o <<SendEvent(loc, idx, p, recipient, TRUE),
                                   SleepEvent(loc, idx)>>]
    ELSE [logs  |-> Append(acc.logs, LogEntry(loc, idx, p, recipient, "Failed",
                                              "SMTPException")),
          trace |-> Append(acc.trace, SendEvent(loc, idx, p, recipient, FALSE))]

\* The loop over the parts of one location, from part idx on.
RECURSIVE SendParts(_, _, _, _, _, _)
SendParts(acc, info, idx, recipient, exists, outcomes) ==
    IF idx > Len(info.parts) THEN acc
    ELSE SendParts(SendPart(acc, info.loc, idx, info.parts[idx], recipient, exists,
                            outcomes[<<info.loc, idx>>]),
                   info, idx + 1, recipient, exists, outcomes)

\* "for loc, info in prepared_info.items()" of Send ALL, from entry k on.
RECURSIVE SendAllLoop(_, _, _, _, _, _)
SendAllLoop(acc, prep, k, recipients, exists, outcomes) ==
    IF k > Len(prep) THEN acc
    ELSE SendAllLoop(
            IF prep[k].parts = <<>> THEN acc
            ELSE SendParts(acc, prep[k], 1, recipients[prep[k].loc], exists, outcomes),
            prep, k + 1, recipients, exists, outcomes)

\* The (location, part) units of a list of prepared entries.
Units(prep) ==
    UNION {{<<prep[k].loc, i>> : i \in 1..Len(prep[k].parts)} : k \in 1..Len(prep)}

\* What the transport answers to each unit's send_message: at most MaxFailures
\* of them fail.
Outcomes(U) ==
    {o \in [U -> {"ok", "fail"}] : Cardinality({u \in U : o[u] = "fail"}) <= MaxFailures}

NoLogs == [logs |-> <<>>, trace |-> <<>>]

----------------------------------------------------------------------------
(* Spec and SpecGroup: the page, one action per interaction (one rerun) *)

F1  == File(TempZipDir, <<"1">> \o Pdf, MinEntrySize)
F11 == File(TempZipDir, <<"1", "1">> \o Pdf, MinEntrySize + 1)

\* Ceilings the operator can set: below the archive of any single document,
\* and above the archive of every document list of the model.
PageCeilings == {EmptyZipSize + MinEntrySize - 1,
                 EmptyZipSize + (MaxRows + 1) * (MinEntrySize + 1)}

RowSeqs(R) == SeqsUpTo(R, MaxRows) \ {<<>>}

\* Inputs of SpecGroup: halltickets that match exactly, by substring or never,
\* locations that differ by surrounding blanks only, recipient texts that
\* differ by order, case and separator only.
GroupRows ==
    [hallticket : {<<"1">>, <<"1", "1">>, <<>>},
     email : {<<"e">>},
     location : {<<"D">>, <<" ", "D">>, <<"P">>},
     location_recipient : {<<>>, <<"r", ";", "s">>, <<"S", ",", "r">>}]

GroupDicts == {<<>>, <<F1>>, <<F11>>, <<F1, F11>>, <<F11, F1>>}

\* Inputs of Spec: the sheet has no recipient column filled in, the operator
\* types the recipients (EditRecipient).
PageRows ==
    [hallticket : {<<"1">>, <<"1", "1">>},
     email : {<<"e">>},
     location : {<<"D">>, <<"P">>},
     location_recipient : {<<>>}]

PageDicts == {<<>>, <<F1>>, <<F1, F11>>}

\* What the operator can type into a recipient field
RecipientTexts == {<<" ">>, <<" ", "r">>}

\* The state after the script's first run on the uploads.
FirstRun ==
    /\ grouped = Grouped(Entries(rows))
    /\ location_recipients = DefaultRecipients(grouped)
    /\ prepared_info = NotPrepared
    /\ workdir_exists = FALSE
    /\ sel_loc = grouped[1].loc
    /\ clicked = "load"
    /\ logs = <<>>
    /\ trace = <<>>
    /\ ui = PageMessages(grouped, pdf_files, prepared_info, sel_loc, workdir_exists)
    /\ IdlePack
    /\ IdleExtract
    /\ IdleResult

Init ==
    /\ rows \in RowSeqs(PageRows)
    /\ pdf_files \in PageDicts
    /\ max_bytes \in PageCeilings
    /\ FirstRun

InitGroup ==
    /\ rows \in RowSeqs(GroupRows)
    /\ pdf_files \in GroupDicts
    /\ max_bytes \in PageCeilings
    /\ FirstRun

\* Every rerun rebuilds grouped from the same upload.
Rerun(what) ==
    /\ grouped' = Grouped(Entries(rows))
    /\ clicked' = what
    /\ UNCHANGED <<rows, pdf_files, max_bytes, file_paths, current_files, part_index,
                   parts, pos, pc, extractVars, resultVars>>

\* The operator edits "Recipient for {loc}": the summary stores the stripped text.
EditRecipient(loc, text) ==
    /\ loc \in Locs(grouped)
    /\ location_recipients' = [location_recipients EXCEPT ![loc] = Strip(text)]
    /\ logs' = <<>>
    /\ trace' = <<>>
    /\ ui' = PageMessages(grouped, pdf_files, prepared_info, sel_loc, workdir_exists)
    /\ Rerun("edit")
    /\ UNCHANGED <<prepared_info, workdir_exists, sel_loc>>

\* The operator picks another location in the review section.
SelectLoc(loc) ==
    /\ prepared_info # NotPrepared
    /\ loc \in Locs(grouped)
    /\ loc # sel_loc
    /\ sel_loc' = loc
    /\ logs' = <<>>
    /\ trace' = <<>>
    /\ ui' = PageMessages(grouped, pdf_files, prepared_info, loc, workdir_exists)
    /\ Rerun("select")
    /\ UNCHANGED <<location_recipients, prepared_info, workdir_exists>>

\* "Prepare location ZIPs (compress & chunk)"
ClickPrepare ==
    /\ prepared_info' = PreparedInfo(grouped, pdf_files, max_bytes, location_recipients)
    /\ workdir_exists' = TRUE
    /\ logs' = <<>>
    /\ trace' = <<>>
    /\ ui' = PageMessages(grouped, pdf_files, prepared_info', sel_loc, TRUE)
    /\ Rerun("prepare")
    /\ UNCHANGED <<location_recipients, sel_loc>>

\* "Send location '{sel_loc}' now": the button exists only when the selected
\* location has parts (and their files could be read for the download buttons).
ClickSendLocation ==
    /\ prepared_info # NotPrepared
    /\ Info(prepared_info, sel_loc).parts # <<>>
    /\ workdir_exists
    /\ LET info == Info(prepared_info, sel_loc)
           recipient == Strip(location_recipients[sel_loc])
           shown == PageMessages(grouped, pdf_files, prepared_info, sel_loc, workdir_exists)
       IN  IF recipient = <<>>
           THEN /\ ui' = shown \cup {<<"Recipient not set for this location", sel_loc>>}
                /\ logs' = <<>>
                /\ trace' = <<>>
           ELSE \E connected \in BOOLEAN :
                  IF ~connected
                  THEN /\ ui' = shown \cup {<<"SMTP connection/login failed", <<>>>>}
                       /\ logs' = <<>>
                       /\ trace' = <<>>
                  ELSE \E o \in Outcomes(Units(<<info>>)) :
                         LET r == SendParts(NoLogs, info, 1, recipient, TRUE, o)
                         IN  /\ logs' = r.logs
                             /\ trace' = r.trace
                             /\ ui' = shown
    /\ Rerun("send_location")
    /\ UNCHANGED <<location_recipients, prepared_info, workdir_exists, sel_loc>>

\* The check of Send ALL with the recipient test left out.
MissingIgnoresRecipients(prep, recipients) ==
    {prep[k].loc : k \in {j \in 1..Len(prep) : prep[j].parts # <<>> /\ FALSE}}

\* The locations Send ALL refuses to start for: parts but no recipient.
Missing(prep, recipients) ==
    {prep[k].loc : k \in {j \in 1..Len(prep) :
                            /\ prep[j].parts # <<>>
                            /\ Strip(recipients[prep[j].loc]) = <<>>}}

\* "Send ALL prepared location zips (confirm)"
ClickSendAll ==
    /\ prepared_info # NotPrepared
    /\ ~ReviewCrashes(prepared_info, sel_loc, workdir_exists)
    /\ LET missing == Missing(prepared_info, location_recipients)
           shown == PageMessages(grouped, pdf_files, prepared_info, sel_loc, workdir_exists)
       IN  IF missing # {}
           THEN /\ ui' = shown \cup {<<"Set recipients for locations first", l>> : l \in missing}
                /\ logs' = <<>>
                /\ trace' = <<>>
           ELSE \E connected \in BOOLEAN :
                  IF ~connected
                  THEN /\ ui' = shown \cup {<<"SMTP connect/login failed", <<>>>>}
                       /\ logs' = <<>>
                       /\ trace' = <<>>
                  ELSE \E o \in Outcomes(Units(prepared_info)) :
                         LET r == SendAllLoop(NoLogs, prepared_info, 1, location_recipients,
                                              workdir_exists, o)
                         IN  /\ logs' = r.logs
                             /\ trace' = r.trace
                             /\ ui' = shown
    /\ Rerun("send_all")
    /\ UNCHANGED <<location_recipients, prepared_info, workdir_exists, sel_loc>>

\* "Cleanup temporary workspace (Email Send)": removes the prepared workdir
\* (and this rerun's extraction directory, which every rerun recreates).
ClickCleanup ==
    /\ ~ReviewCrashes(prepared_info, sel_loc, workdir_exists)
    /\ workdir_exists' = FALSE
    /\ logs' = <<>>
    /\ trace' = <<>>
    /\ ui' = PageMessages(grouped, pdf_files, prepared_info, sel_loc, workdir_exists)
    /\ Rerun("cleanup")
    /\ UNCHANGED <<location_recipients, prepared_info, sel_loc>>

\* A click on a button that the previous run rendered, when the part files of
\* the selected location are gone: the rerun raises FileNotFoundError in the
\* review section, before any of the three handlers, and the script stops.
ClickStoppedByReview(button) ==
    /\ prepared_info # NotPrepared
    /\ ReviewCrashes(prepared_info, sel_loc, workdir_exists)
    /\ <<"FileNotFoundError", sel_loc>> \notin ui
    /\ logs' = <<>>
    /\ trace' = <<>>
    /\ ui' = PageMessages(grouped, pdf_files, prepared_info, sel_loc, workdir_exists)
    /\ Rerun(button)
    /\ UNCHANGED <<location_recipients, prepared_info, workdir_exists, sel_loc>>

ClickSomeStopped ==
    \E button \in {"send_location_stopped", "send_all_stopped", "cleanup_stopped"} :
        ClickStoppedByReview(button)

EditSomeRecipient == \E loc \in Locs(grouped), text \in RecipientTexts : EditRecipient(loc, text)

SelectSomeLoc == \E loc \in Locs(grouped) : SelectLoc(loc)

Next ==
    \/ EditSomeRecipient
    \/ SelectSomeLoc
    \/ ClickPrepare
    \/ ClickSendLocation
    \/ ClickSendAll
    \/ ClickCleanup
    \/ ClickSomeStopped

Spec == Init /\ [][Next]_vars

NextGroup == ClickPrepare

SpecGroup == InitGroup /\ [][NextGroup]_vars

----------------------------------------------------------------------------
(* Claims about extraction that read the matching (SpecExtract) *)

\* C6: if the top-level bytes cannot be opened as an archive, the extraction
\* fails as a whole, the failure is shown to the operator, and the document
\* collection is empty, so that no hallticket resolves to a document.
C6_TopLevelUnreadableIsFatal ==
    (extract_pc = "done" /\ ~uploaded_zip.ok) =>
        /\ zip_error
        /\ pdf_files = <<>>
        /\ \A r \in GroupRows : Resolve(Strip(r.hallticket), pdf_files) = NoFile

\* C6 (witness): the extraction block has run on bytes that are no archive.
C6_Witness ==
    extract_pc = "done" /\ ~uploaded_zip.ok /\ zip_error

----------------------------------------------------------------------------
(* Claims about grouping and preparation (SpecGroup) *)

\* The tokens of a recipient text, split on "," ";" and newline.
RECURSIVE SplitRecipients(_)
SplitRecipients(s) ==
    IF s = <<>> THEN <<<<>>>>
    ELSE LET rest == SplitRecipients(Tail(s))
         IN  IF Head(s) \in {",", ";", "\n"}
             THEN <<<<>>>> \o rest
             ELSE <<<<Head(s)>> \o Head(rest)>> \o Tail(rest)

\* The normalized recipient set of a row: tokens trimmed and lower-cased.
NormalizedRecipients(raw) ==
    {Lower(Strip(t)) : t \in Range(SplitRecipients(raw))} \ {<<>>}

InSameGroup(e1, e2) ==
    \E k \in 1..Len(grouped) :
        e1 \in Range(grouped[k].items) /\ e2 \in Range(grouped[k].items)

GroupDocuments(g) ==
    {Resolve(g.items[i].hallticket, pdf_files) : i \in 1..Len(g.items)} \ {NoFile}

PackagedFiles(info) == SumSeq([i \in 1..Len(info.parts) |-> info.parts[i].num_files])

\* C9: a group's document list contains each matched document at most once:
\* when several rows of one group resolve to the same document it is packaged
\* once, so a prepared group holds as many files as it has distinct documents.
C9_EachDocumentPackagedOnce ==
    prepared_info # NotPrepared =>
        \A k \in 1..Len(grouped) :
            PackagedFiles(prepared_info[k]) = Cardinality(GroupDocuments(grouped[k]))

----------------------------------------------------------------------------
(* Claims about sending (Spec) *)

GroupOf(loc) == CHOOSE g \in Range(grouped) : g.loc = loc

\* C10: no transport send is ever issued for a group whose recipient is empty
\* or whose matched document list is empty, from "Send location" or from
\* "Send ALL"; the group is reported instead: a send request that meets an
\* empty recipient shows an error and sends nothing, and a group without
\* matched documents is marked in every rendering of the page.
C10_NoSendForNonDispatchableGroup ==
    /\ \A i \in 1..Len(trace) :
           trace[i].op = "send_message" =>
               /\ Strip(trace[i].to) # <<>>
               /\ MatchedPaths(GroupOf(trace[i].loc).items, pdf_files) # <<>>
               /\ location_recipients[trace[i].loc] = trace[i].to
    /\ (clicked = "send_location" /\ location_recipients[sel_loc] = <<>>) =>
           /\ trace = <<>>
           /\ <<"Recipient not set for this location", sel_loc>> \in ui
    /\ (clicked = "send_all" /\ Missing(prepared_info, location_recipients) # {}) =>
           /\ trace = <<>>
           /\ \A l \in Missing(prepared_info, location_recipients) :
                  <<"Set recipients for locations first", l>> \in ui
    /\ \A k \in 1..Len(grouped) :
           MatchedPaths(grouped[k].items, pdf_files) = <<>> =>
               <<"No PDFs", grouped[k].loc>> \in ui

\* C10 (witness): a Send ALL run that issued sends while another group had no
\* matched document and so no part.
C10_Witness ==
    /\ clicked = "send_all"
    /\ \E i \in 1..Len(trace) : trace[i].op = "send_message"
    /\ \E k \in 1..Len(prepared_info) : prepared_info[k].parts = <<>>

\* A handler's SMTP connection or login failed, so its send loop never started.
ConnectFailed ==
    \/ <<"SMTP connect/login failed", <<>>>> \in ui
    \/ <<"SMTP connection/login failed", <<>>>> \in ui

\* The log entries of one (location, part) unit.
LogsOf(loc, idx) == {j \in 1..Len(logs) : logs[j].Location = loc /\ logs[j].Part = idx}

\* A prepared group that can be dispatched: it has parts and a recipient.
Dispatchable(info) ==
    info.parts # <<>> /\ Strip(location_recipients[info.loc]) # <<>>

\* C11: a group without recipient or without matched documents blocks only
\* itself: after a Send ALL whose connection succeeded, every part of every
\* dispatchable group has been attempted (it has a log entry).
C11_NonDispatchableBlocksOnlyItself ==
    (clicked = "send_all" /\ ~ConnectFailed) =>
        \A k \in 1..Len(prepared_info) :
            Dispatchable(prepared_info[k]) =>
                \A i \in 1..Len(prepared_info[k].parts) :
                    LogsOf(prepared_info[k].loc, i) # {}

\* C12: after every send attempt, successful or failed, the handler sleeps the
\* configured delay before anything else: every send_message call of a run is
\* directly followed by a sleep.
C12_DelayAfterEveryAttempt ==
    \A i \in 1..Len(trace) :
        trace[i].op = "send_message" =>
            i < Len(trace) /\ trace[i + 1].op = "sleep"

\* C14: every unit's outcome entry (Sent or Failed) comes after a Pending entry
\* of the same unit, written before the transport call.
C14_PendingBeforeOutcome ==
    \A j \in 1..Len(logs) :
        logs[j].Status \in {"Sent", "Failed"} =>
            \E i \in 1..(j - 1) :
                /\ logs[i].Location = logs[j].Location
                /\ logs[i].Part = logs[j].Part
                /\ logs[i].Status = "Pending"

\* The units of the send loop that the last handler ran, in loop order.
RECURSIVE UnitSeq(_)
UnitSeq(prep) ==
    IF prep = <<>> THEN <<>>
    ELSE [i \in 1..Len(Head(prep).parts) |-> <<Head(prep).loc, i>>] \o UnitSeq(Tail(prep))

RunUnits ==
    IF clicked = "send_all" THEN UnitSeq(prepared_info)
    ELSE IF clicked = "send_location" THEN UnitSeq(<<Info(prepared_info, sel_loc)>>)
    ELSE <<>>

\* C13: a transport failure on one part does not abort the run. The failed
\* attempt is recorded as exactly one log entry, with status Failed and the
\* error text, and every unit of the loop, before and after the failed one,
\* in the same group and in the following groups, has exactly one log entry.
C13_TransportFailureDoesNotAbort ==
    (\E i \in 1..Len(trace) : trace[i].op = "send_message" /\ ~trace[i].ok) =>
        /\ \A i \in 1..Len(trace) :
               (trace[i].op = "send_message" /\ ~trace[i].ok) =>
                   /\ Cardinality(LogsOf(trace[i].loc, trace[i].part)) = 1
                   /\ \A j \in LogsOf(trace[i].loc, trace[i].part) :
                          logs[j].Status = "Failed" /\ logs[j].Error = "SMTPException"
        /\ Len(logs) = Len(RunUnits)
        /\ \A j \in 1..Len(logs) : <<logs[j].Location, logs[j].Part>> = RunUnits[j]

\* C13 (witness): a Send ALL run in which a send failed and a later unit of
\* another group was sent.
C13_Witness ==
    /\ clicked = "send_all"
    /\ \E i, j \in 1..Len(trace) :
          /\ i < j
          /\ trace[i].op = "send_message" /\ ~trace[i].ok
          /\ trace[j].op = "send_message" /\ trace[j].ok
          /\ trace[j].loc # trace[i].loc

----------------------------------------------------------------------------
(* SpecResult: the row-level mapping of Result Formation mode *)

IsDigit(c) == c \in {"0", "1", "2", "3", "4", "5", "6", "7", "8", "9"}

\* The maximal runs of digits of s, in order (cur: the run being read).
RECURSIVE DigitRuns(_, _)
DigitRuns(s, cur) ==
    IF s = <<>> THEN (IF cur = <<>> THEN <<>> ELSE <<cur>>)
    ELSE IF IsDigit(Head(s)) THEN DigitRuns(Tail(s), Append(cur, Head(s)))
    ELSE (IF cur = <<>> THEN <<>> ELSE <<cur>>) \o DigitRuns(Tail(s), <<>>)

MinKeyDigits == 4

\* re.findall(r"\d{4,}", fname)
FindAllDigits(fname) == SelectSeq(DigitRuns(fname, <<>>), LAMBDA r : Len(r) >= MinKeyDigits)

\* os.path.splitext(fname)[0]: cut at the last dot, unless it is a leading dot.
SplitExtRoot(fname) ==
    LET dots == {i \in 1..Len(fname) : fname[i] = "."}
        lead == {i \in 1..Len(fname) : \A j \in 1..i : fname[j] = "."}
        last == CHOOSE i \in dots : \A j \in dots : j <= i
    IN  IF dots \ lead = {} THEN fname ELSE SubSeq(fname, 1, last - 1)

\* pdf_lookup.setdefault(key, []).append(fname) on a dict kept in insertion order
SetDefaultAppend(lookup, key, fname) ==
    IF \E i \in 1..Len(lookup) : lookup[i].key = key
    THEN [i \in 1..Len(lookup) |->
             IF lookup[i].key = key
             THEN [lookup[i] EXCEPT !.files = Append(@, fname)] ELSE lookup[i]]
    ELSE Append(lookup, [key |-> key, files |-> <<fname>>])

RECURSIVE AddKeys(_, _, _)
AddKeys(lookup, keys, fname) ==
    IF keys = <<>> THEN lookup
    ELSE AddKeys(SetDefaultAppend(lookup, Head(keys), fname), Tail(keys), fname)

\* "Build pdf lookup": for every file its digit runs, then its name without
\* extension.
RECURSIVE pdf_lookup(_)
pdf_lookup(files) ==
    IF files = <<>> THEN <<>>
    ELSE LET fname == files[Len(files)].name
         IN  AddKeys(pdf_lookup(SubSeq(files, 1, Len(files) - 1)),
                     Append(FindAllDigits(fname), SplitExtRoot(fname)), fname)

NoMatch == <<>>

\* The matching of one row of rdf: exact key, then the first key that contains
\* the hallticket, then the first file name that contains it.
MatchedName(ht, files) ==
    LET lookup == pdf_lookup(files)
        exact == {i \in 1..Len(lookup) : lookup[i].key = ht}
        sub   == {i \in 1..Len(lookup) : Contains(ht, lookup[i].key)}
        infn  == {i \in 1..Len(files) : Contains(ht, files[i].name)}
        mp    == IF exact # {} THEN lookup[FirstIn(exact)].files[1]
                 ELSE IF sub # {} THEN lookup[FirstIn(sub)].files[1]
                 ELSE NoMatch
    IN  IF files = <<>> \/ ht = <<>> THEN NoMatch
        ELSE IF mp # NoMatch THEN mp
        ELSE IF infn # {} THEN files[FirstIn(infn)].name
        ELSE NoMatch

MappingRow(sr, r, files) ==
    LET ht == Strip(r.hallticket)
        matched_name == MatchedName(ht, files)
    IN  [SrNo |-> sr, Hallticket |-> ht, MatchedFile |-> matched_name,
         Matched |-> IF matched_name # NoMatch THEN "Yes" ELSE "No"]

TempZipDirRf == <<<<"aiclex_rf_zip_">>>>

RfNames ==
    {<<"1", "0", "3", "6", "_", "1", "7", "_", "8", "0", "2", "8", "7", "1", "0", "2", "2">> \o Pdf,
     <<"n", "o", "d", "i", "g", "i", "t", "s">> \o Pdf,
     <<"1", "2", "_", "3", "4", "5", "6">> \o Pdf,
     <<"A", "B", "1", "2", "3">> \o Pdf}

RfTickets ==
    {<<"8", "0", "2", "8", "7", "1", "0", "2", "2">>, <<"1", "0", "3", "6">>, <<"1", "7">>,
     <<"n", "o", "d", "i", "g", "i", "t", "s">>, <<"1", "2", "3">>, <<>>}

RfDicts ==
    {d \in SeqsUpTo({File(TempZipDirRf, n, MinEntrySize) : n \in RfNames}, 2) :
        \A i, j \in 1..Len(d) : d[i] = d[j] => i = j}

InitResult ==
    /\ rdf \in SeqsUpTo([hallticket : RfTickets], MaxRows) \ {<<>>}
    /\ pdf_files_rf \in RfDicts
    /\ mapping_rows = <<>>
    /\ result_pc = "start"
    /\ pdf_files = <<>>
    /\ max_bytes = 1
    /\ IdlePack
    /\ IdleExtract
    /\ IdlePage

\* "Build mapping rows immediately"
BuildMapping ==
    /\ result_pc = "start"
    /\ mapping_rows' = [i \in 1..Len(rdf) |-> MappingRow(i, rdf[i], pdf_files_rf)]
    /\ result_pc' = "done"
    /\ UNCHANGED <<rdf, pdf_files_rf, pdf_files, packVars, extractVars, pageVars>>

NextResult == BuildMapping

SpecResult == InitResult /\ [][NextResult]_vars

\* The last contiguous run of digits of a name without its extension, or the
\* empty string if it has no digit.
LastDigitRun(fname) ==
    LET runs == DigitRuns(SplitExtRoot(fname), <<>>)
    IN  IF runs = <<>> THEN <<>> ELSE runs[Len(runs)]

\* The keys under which the lookup lists a file.
KeysOf(fname, files) ==
    LET lookup == pdf_lookup(files)
    IN  {lookup[i].key : i \in {j \in 1..Len(lookup) : fname \in Range(lookup[j].files)}}

\* C15: the lookup key of a document is the last contiguous run of digits of
\* its base name, and a document without digits is in the index under no key,
\* so that no row is matched to it.
C15_KeyIsLastDigitRun ==
    result_pc = "done" =>
        /\ \A i \in 1..Len(pdf_files_rf) :
               KeysOf(pdf_files_rf[i].name, pdf_files_rf) =
                   IF LastDigitRun(pdf_files_rf[i].name) = <<>> THEN {}
                   ELSE {LastDigitRun(pdf_files_rf[i].name)}
        /\ \A k \in 1..Len(mapping_rows) :
               mapping_rows[k].Matched = "Yes" =>
                   LastDigitRun(mapping_rows[k].MatchedFile) # <<>>

----------------------------------------------------------------------------
(* Claims about the order of a Send ALL run (Spec) *)

\* The row in which a destination first appears.
FirstRow(loc) == FirstIn({i \in 1..Len(rows) : Strip(rows[i].location) = loc})

\* C16: a Send ALL run processes the groups in the order their destination
\* first appears in the rows and the parts of a group in ascending ordinal:
\* the log lists every part of every dispatchable group exactly once, in
\* that order.
C16_StableOrderEachPartOnce ==
    (clicked = "send_all" /\ ~ConnectFailed) =>
        /\ \A k, m \in 1..Len(prepared_info) :
               k < m => FirstRow(prepared_info[k].loc) < FirstRow(prepared_info[m].loc)
        /\ [j \in 1..Len(logs) |-> <<logs[j].Location, logs[j].Part>>]
               = UnitSeq(SelectSeq(prepared_info, Dispatchable))

----------------------------------------------------------------------------
(* Claims about nested extraction (SpecExtract) *)

\* An archive all of whose levels can be opened and read.
RECURSIVE WellFormed(_)
WellFormed(a) ==
    /\ a.ok
    /\ \A e \in a.pdfs : e.readable
    /\ \A z \in a.zips : WellFormed(z.content)

\* The directories of all nested archives of an archive extracted to root.
RECURSIVE NestedDirs(_, _)
NestedDirs(a, root) ==
    {NestedDir(root, z.name) : z \in a.zips}
    \cup UNION {NestedDirs(z.content, NestedDir(root, z.name)) : z \in a.zips}

\* Every document of an archive, at every depth, with the path it belongs at.
RECURSIVE AllDocs(_, _)
AllDocs(a, root) ==
    {File(root, e.name, MinEntrySize) : e \in a.pdfs}
    \cup UNION {AllDocs(z.content, NestedDir(root, z.name)) : z \in a.zips}

----------------------------------------------------------------------------
(* SpecNames: Prepare on rows and archives with unusual names *)

\* A document whose file name is the bare extension.
FDot == File(TempZipDir, Pdf, MinEntrySize)

\* A destination longer than the directory-name prefix, ending in c.
LongLoc(c) == [i \in 1..LocDirMax |-> "x"] \o <<c>>

\* Inputs of SpecNames: an empty or a blank hallticket, destinations that
\* differ by space versus underscore or after the truncated prefix only.
NameRows ==
    [hallticket : {<<>>, <<" ">>, <<"1">>},
     email : {<<"e">>},
     location : {<<"A", " ", "B">>, <<"A", "_", "B">>, LongLoc("y"), LongLoc("z")},
     location_recipient : {<<"r">>}]

NameDicts == {<<F1>>, <<FDot>>, <<F1, FDot>>}

InitNames ==
    /\ rows \in RowSeqs(NameRows)
    /\ pdf_files \in NameDicts
    /\ max_bytes \in PageCeilings
    /\ FirstRun

SpecNames == InitNames /\ [][NextGroup]_vars

\* The rows of a group all have an empty match key.
AllKeysEmpty(g) == \A i \in 1..Len(g.items) : g.items[i].hallticket = <<>>

\* C18: a record whose match key is empty is matched to no document, whatever
\* the archive holds: neither the exact-name lookup nor the substring fallback
\* resolves it, so a group of such records is prepared without parts.
C18_EmptyKeyNeverMatched ==
    prepared_info # NotPrepared =>
        /\ \A i \in 1..Len(rows) :
               Strip(rows[i].hallticket) = <<>> =>
                   Resolve(Entries(rows)[i].hallticket, pdf_files) = NoFile
        /\ \A k \in 1..Len(grouped) :
               AllKeysEmpty(grouped[k]) =>
                   /\ prepared_info[k].parts = <<>>
                   /\ <<"No PDFs", grouped[k].loc>> \in ui

\* The part files of a prepared group.
PartPaths(info) == {info.parts[i].path : i \in 1..Len(info.parts)}

\* C19: distinct groups have disjoint working directories and part file
\* paths: two prepared groups with parts never share the directory their
\* documents are copied to, nor a part file.
C19_DisjointWorkingDirectories ==
    prepared_info # NotPrepared =>
        \A k, m \in 1..Len(prepared_info) :
            (k # m /\ prepared_info[k].parts # <<>> /\ prepared_info[m].parts # <<>>) =>
                /\ LocDir(prepared_info[k].loc) # LocDir(prepared_info[m].loc)
                /\ PartPaths(prepared_info[k]) \cap PartPaths(prepared_info[m]) = {}

----------------------------------------------------------------------------
(* Claims about sending after cleanup (Spec) *)

\* C20: after Cleanup has removed the prepared parts, a Send ALL over the
\* remembered prepared_info records no part as Sent, and records every part,
\* its file being gone, exactly once, as Failed with an error text.
C20_SendAllAfterCleanupFailsEveryPart ==
    (/\ clicked \in {"send_all", "send_all_stopped"}
     /\ prepared_info # NotPrepared
     /\ ~workdir_exists
     /\ ~ConnectFailed) =>
        /\ \A j \in 1..Len(logs) : logs[j].Status # "Sent"
        /\ \A u \in Range(UnitSeq(prepared_info)) :
               /\ Cardinality(LogsOf(u[1], u[2])) = 1
               /\ \A j \in LogsOf(u[1], u[2]) :
                      logs[j].Status = "Failed" /\ logs[j].Error # NoError

====
